---- MODULE Spec2Model ----
(***************************************************************************)
(* State-machine model of the streaming query view                         *)
(* apps/web-antd/src/views/aidata/query/index.vue: the reactive refs of    *)
(* the component, its handlers (handleSend, handleClear, loadConnections,  *)
(* onUnmounted), and the callbacks that handleSend registers on the        *)
(* EventSource it creates (es.onmessage, es.onerror).                      *)
(*                                                                         *)
(* Strings are sequences of one-character strings, so that trim() and      *)
(* string concatenation are computed.  Every EventSource object the view   *)
(* has created is kept in `channels` together with the `aiContent`         *)
(* variable its callbacks close over.  Message timestamps are not read by  *)
(* any handler and are left out of the message records.                    *)
(* Handlers are modelled as callable whenever the component is mounted;    *)
(* the `disabled` attributes of the template are not part of the handlers. *)
(***************************************************************************)
EXTENDS Integers, Sequences, FiniteSets, TLC

VARIABLES query, loading, messages, connections, selectedConnectionId,
          eventSource, currentSessionId, channels, loadState, unmounted,
          lastOp

vars == <<query, loading, messages, connections, selectedConnectionId,
          eventSource, currentSessionId, channels, loadState, unmounted,
          lastOp>>

\* ---------------------------------------------------------------- bounds
\* Number of sessions (EventSource objects) one run may create.
MaxSends == 2
\* Number of content characters the backend streams in one run, over all
\* sessions.
MaxChunks == 2

\* ---------------------------------------------------------------- values
\* null, for the two refs that hold a number or an object: backend ids and
\* channel indices are never negative.
null == -1

\* What the user may type into the query input.
QueryInputs ==
  { <<>>, <<" ", " ">>, <<" ", "a", " ", "b", " ">> }

\* Lists the backend may answer getConnSourcesApi() with: id and status of
\* each item (the other ConnSourceDTO fields are not read by this view).
BackendLists ==
  { <<>>,
    << [id |-> 1, status |-> 0] >>,
    << [id |-> 1, status |-> 1], [id |-> 2, status |-> 0], [id |-> 3, status |-> 1] >>,
    << [id |-> 2, status |-> 0], [id |-> 0, status |-> 1], [id |-> 1, status |-> 1] >> }

\* Payloads (event.data) an event of the stream may carry.
Payloads ==
  { "oops", "null", "{}",
    "{content:'x'}", "{content:'y',is_final:false}",
    "{is_final:true}", "{is_final:false}",
    "{content:'x',is_final:true}" }

\* An event of a named kind may also come with an empty data field.
NoPayload == ""

\* ------------------------------------------------------------ pure parts
\* The query used as typed, without trim().
trimOmitted(s) == s

\* String.prototype.trim on a sequence of characters.
RECURSIVE trimStart(_)
trimStart(s) ==
  IF s # <<>> /\ Head(s) = " " THEN trimStart(Tail(s)) ELSE s

RECURSIVE trimEnd(_)
trimEnd(s) ==
  IF s # <<>> /\ s[Len(s)] = " " THEN trimEnd(SubSeq(s, 1, Len(s) - 1)) ELSE s

trim(s) == trimEnd(trimStart(s))

\* JSON.parse(event.data).  ok = FALSE: it throws a SyntaxError.  isObject =
\* FALSE: the value is null, so reading a property of it throws a TypeError.
\* hasContent / content: the content field; is_final: "true", "false" or
\* "undefined" (field absent).
parsed(ok, isObject, hasContent, content, is_final) ==
  [ok |-> ok, isObject |-> isObject, hasContent |-> hasContent,
   content |-> content, is_final |-> is_final]

JSONparse(d) ==
  CASE d = "null"            -> parsed(TRUE, FALSE, FALSE, <<>>, "undefined")
    [] d = "{}"              -> parsed(TRUE, TRUE, FALSE, <<>>, "undefined")
    [] d = "{content:'x'}"   -> parsed(TRUE, TRUE, TRUE, <<"x">>, "undefined")
    [] d = "{is_final:true}" -> parsed(TRUE, TRUE, FALSE, <<>>, "true")
    [] d = "{is_final:false}" -> parsed(TRUE, TRUE, FALSE, <<>>, "false")
    [] d = "{content:'x',is_final:true}" -> parsed(TRUE, TRUE, TRUE, <<"x">>, "true")
    [] d = "{content:'y',is_final:false}" -> parsed(TRUE, TRUE, TRUE, <<"y">>, "false")
    [] OTHER                 -> parsed(FALSE, FALSE, FALSE, <<>>, "undefined")

\* JavaScript truthiness, per type of the value tested: a string is truthy
\* unless empty, a number-or-null unless null or 0, an optional boolean only
\* when true.
truthyString(s) == s # <<>>

truthyNumber(n) == n # null /\ n # 0

truthyFlag(b) == b = "true"

\* The fetched items taken as they come, without the filter.
filterOmitted(items) == items

\* res.items.filter((c) => c.status === 1)
RECURSIVE filterEnabled(_)
filterEnabled(items) ==
  IF items = <<>> THEN <<>>
  ELSE IF Head(items).status = 1
       THEN <<Head(items)>> \o filterEnabled(Tail(items))
       ELSE filterEnabled(Tail(items))

\* ------------------------------------------------------------------ state
\* A ChatMessage without timestamp.  error = "" stands for an absent error
\* field; a user message has no loading field, which reads as falsy.
userMessage(id, text) ==
  [id |-> id, type |-> "user", content |-> text, loading |-> FALSE, error |-> ""]

aiMessage(id) ==
  [id |-> id, type |-> "assistant", content |-> <<>>, loading |-> TRUE, error |-> ""]

\* The fixed text es.onerror stores in the turn (a non-empty literal in the
\* source, written here in ASCII).
ConnectionFailed == "connection failed, retry later"

op(name, data, res) == [op |-> name, data |-> data, res |-> res]

Init ==
  /\ query = <<>>
  /\ loading = FALSE
  /\ messages = <<>>
  /\ connections = <<>>
  /\ selectedConnectionId = null
  /\ eventSource = null
  /\ currentSessionId = 0
  /\ channels = <<>>
  /\ loadState = "pending"
  /\ unmounted = FALSE
  /\ lastOp = op("onMounted", "", "")

\* The channels that are not closed (readyState CONNECTING or OPEN).
openChannels == { c \in DOMAIN channels : channels[c].readyState = "open" }

\* Number of content characters streamed so far, over all channels.
RECURSIVE streamedUpTo(_)
streamedUpTo(k) ==
  IF k = 0 THEN 0 ELSE Len(channels[k].aiContent) + streamedUpTo(k - 1)

streamed == streamedUpTo(Len(channels))

\* EventSource.close() on channel c (no effect on a closed one; none on null).
close(chs, c) ==
  IF c = null THEN chs ELSE [chs EXCEPT ![c].readyState = "closed"]

\* messages.value[messages.value.length - 1] exists and is an assistant turn.
lastIsAssistant(msgs) ==
  Len(msgs) > 0 /\ msgs[Len(msgs)].type = "assistant"

\* ---------------------------------------------------------------- actions
\* v-model:value="query" of the input: the user edits the query text.
QueryInput(q) ==
  /\ ~unmounted
  /\ query' = q
  /\ lastOp' = op("input", "", "")
  /\ UNCHANGED <<loading, messages, connections, selectedConnectionId,
                 eventSource, currentSessionId, channels, loadState, unmounted>>

\* handleSend without its third early return.
inProgressIgnored == FALSE

\* if (loading.value) return;
inProgress == loading

\* generateId: a fresh value at each call.  Ids are counted; handleSend makes
\* the only calls, three in a row, the last one for the session id, so the
\* k-th id of a call is the k-th after the current session id.
generateId(k) == currentSessionId + k

\* handleSend: the three early returns, then the two pushes, the new session
\* id, close of the old handle and creation of the new EventSource.
\* encodeURIComponent and the EventSource constructor are taken to succeed
\* (the URL is a fixed base plus encoded parameters), so the catch block of
\* handleSend is not entered.
handleSend ==
  /\ ~unmounted
  /\ IF ~truthyString(trim(query))
     THEN /\ lastOp' = op("handleSend", "", "warning: empty query")
          /\ UNCHANGED <<query, loading, messages, eventSource,
                         currentSessionId, channels>>
     ELSE IF ~truthyNumber(selectedConnectionId)
     THEN /\ lastOp' = op("handleSend", "", "warning: no connection")
          /\ UNCHANGED <<query, loading, messages, eventSource,
                         currentSessionId, channels>>
     ELSE IF inProgress
     THEN /\ lastOp' = op("handleSend", "", "return: loading")
          /\ UNCHANGED <<query, loading, messages, eventSource,
                         currentSessionId, channels>>
     ELSE /\ Len(channels) < MaxSends
          /\ messages' = messages \o <<userMessage(generateId(1), trim(query)),
                                        aiMessage(generateId(2))>>
          /\ query' = <<>>
          /\ loading' = TRUE
          /\ currentSessionId' = generateId(3)
          /\ channels' = Append(close(channels, eventSource),
                                [readyState |-> "open",
                                 aiContent |-> <<>>,
                                 query |-> trim(query),
                                 connection_id |-> selectedConnectionId,
                                 session_id |-> generateId(3)])
          /\ eventSource' = Len(channels) + 1
          /\ lastOp' = op("handleSend", "", "started")
  /\ UNCHANGED <<connections, selectedConnectionId, loadState, unmounted>>

\* The accumulator assigned (=) instead of appended to (+=).
accumulateOverwrite(acc, data) ==
  IF data.hasContent /\ truthyString(data.content)
  THEN data.content
  ELSE acc

\* aiContent += data.content, done only when data.content is truthy.
accumulate(acc, data) ==
  IF data.hasContent /\ truthyString(data.content)
  THEN acc \o data.content
  ELSE acc

\* The final test without the payload's flag.
isFinalByTypeOnly(data, type) ==
  type = "final_result"

\* data.is_final || event.type === 'final_result'
isFinal(data, type) ==
  truthyFlag(data.is_final) \/ type = "final_result"

\* A catch that treats the parse failure as the end of the session.
caughtEndsSession(c, d) ==
  /\ lastOp' = op("onmessage", d, "caught")
  /\ channels' = close(channels, c)
  /\ eventSource' = null
  /\ loading' = FALSE
  /\ UNCHANGED messages

\* The catch of es.onmessage: the error is logged, nothing is written.
caught(c, d) ==
  /\ lastOp' = op("onmessage", d, "caught")
  /\ UNCHANGED <<messages, channels, eventSource, loading>>

\* es.onmessage of channel c, called with an event of the given type and data.
\* Everything runs inside the try block: a payload that does not parse, or
\* that parses to null, throws before anything is written.
onmessage(c, type, d) ==
  LET data == JSONparse(d)
      n == Len(messages)
      aiContent == accumulate(channels[c].aiContent, data)
      afterContent ==
        IF data.hasContent /\ truthyString(data.content) /\ lastIsAssistant(messages)
        THEN [messages EXCEPT ![n].content = aiContent,
                              ![n].loading = ~truthyFlag(data.is_final)]
        ELSE messages
      final == isFinal(data, type)
      afterFinal ==
        IF final /\ lastIsAssistant(afterContent)
        THEN [afterContent EXCEPT ![n].loading = FALSE]
        ELSE afterContent
  IN IF ~data.ok \/ ~data.isObject
     THEN caught(c, d)
     ELSE /\ streamed + Len(aiContent) - Len(channels[c].aiContent) <= MaxChunks
          /\ messages' = afterFinal
          /\ channels' = IF final
                         THEN close([channels EXCEPT ![c].aiContent = aiContent], c)
                         ELSE [channels EXCEPT ![c].aiContent = aiContent]
          /\ eventSource' = IF final THEN null ELSE eventSource
          /\ loading' = IF final THEN FALSE ELSE loading
          /\ lastOp' = op("onmessage", d, IF final THEN "final" ELSE "chunk")

\* The stream delivers an unnamed event (type "message") on an open channel:
\* the EventSource calls the onmessage callback.  A closed EventSource
\* dispatches nothing.
MessageEvent(c, d) ==
  /\ c \in openChannels
  /\ onmessage(c, "message", d)
  /\ UNCHANGED <<query, connections, selectedConnectionId, currentSessionId,
                 loadState, unmounted>>

\* The stream delivers an event named final_result on an open channel.  The
\* view registers only es.onmessage and es.onerror; onmessage receives the
\* events of type "message" alone, so no callback of the view runs.
FinalResultEvent(c, d) ==
  /\ c \in openChannels
  /\ lastOp' = op("final_result", d, "no listener")
  /\ UNCHANGED <<query, loading, messages, connections, selectedConnectionId,
                 eventSource, currentSessionId, channels, loadState, unmounted>>

\* es.onerror that does not close the channel.
onerrorWithoutClose(c) ==
  LET n == Len(messages)
  IN /\ channels' = channels
     /\ eventSource' = null
     /\ loading' = FALSE
     /\ messages' = IF lastIsAssistant(messages)
                    THEN [messages EXCEPT ![n].loading = FALSE,
                                          ![n].error = ConnectionFailed]
                    ELSE messages
     /\ lastOp' = op("onerror", "", "")

\* es.onerror that leaves the assistant turn as it is.
onerrorWithoutTurnUpdate(c) ==
  /\ channels' = close(channels, c)
  /\ eventSource' = null
  /\ loading' = FALSE
  /\ messages' = messages
  /\ lastOp' = op("onerror", "", "")

\* es.onerror of channel c.
onerror(c) ==
  LET n == Len(messages)
  IN /\ channels' = close(channels, c)
     /\ eventSource' = null
     /\ loading' = FALSE
     /\ messages' = IF lastIsAssistant(messages)
                    THEN [messages EXCEPT ![n].loading = FALSE,
                                          ![n].error = ConnectionFailed]
                    ELSE messages
     /\ lastOp' = op("onerror", "", "")

\* A transport error on an open channel: the EventSource calls onerror.
ErrorEvent(c) ==
  /\ c \in openChannels
  /\ onerror(c)
  /\ UNCHANGED <<query, connections, selectedConnectionId, currentSessionId,
                 loadState, unmounted>>

\* handleClear that does not reset the loading flag.
clearKeepsLoading ==
  /\ messages' = <<>>
  /\ channels' = close(channels, eventSource)
  /\ eventSource' = null
  /\ loading' = loading

\* handleClear that drops the handle without closing the channel.
clearWithoutClose ==
  /\ messages' = <<>>
  /\ channels' = channels
  /\ eventSource' = null
  /\ loading' = FALSE

\* The body of handleClear.
clear ==
  /\ messages' = <<>>
  /\ channels' = close(channels, eventSource)
  /\ eventSource' = null
  /\ loading' = FALSE

\* The user presses the clear button.
handleClear ==
  /\ ~unmounted
  /\ clear
  /\ lastOp' = op("handleClear", "", "")
  /\ UNCHANGED <<query, connections, selectedConnectionId, currentSessionId,
                 loadState, unmounted>>

\* A Select whose change event runs no handler.
SelectChangeWithoutClear(id) ==
  /\ ~unmounted
  /\ \E i \in DOMAIN connections : connections[i].id = id
  /\ id # selectedConnectionId
  /\ selectedConnectionId' = id
  /\ lastOp' = op("select", "", "")
  /\ UNCHANGED <<query, loading, messages, connections, eventSource,
                 currentSessionId, channels, loadState, unmounted>>

\* The user picks another option of the Select: v-model stores its value,
\* then @change runs handleClear.
SelectChange(id) ==
  /\ ~unmounted
  /\ \E i \in DOMAIN connections : connections[i].id = id
  /\ id # selectedConnectionId
  /\ selectedConnectionId' = id
  /\ clear
  /\ lastOp' = op("select", "", "")
  /\ UNCHANGED <<query, connections, currentSessionId, loadState, unmounted>>

\* onUnmounted that leaves the channel open.
onUnmountedWithoutClose ==
  /\ ~unmounted
  /\ unmounted' = TRUE
  /\ lastOp' = op("onUnmounted", "", "")
  /\ UNCHANGED <<query, loading, messages, connections, selectedConnectionId,
                 eventSource, currentSessionId, channels, loadState>>

\* onUnmounted: closes the handle if there is one; resets nothing.
onUnmounted ==
  /\ ~unmounted
  /\ unmounted' = TRUE
  /\ channels' = close(channels, eventSource)
  /\ lastOp' = op("onUnmounted", "", "")
  /\ UNCHANGED <<query, loading, messages, connections, selectedConnectionId,
                 eventSource, currentSessionId, loadState>>

\* loadConnections after the await, the request having succeeded with the
\* given items.  onMounted starts the one call of loadConnections.
loadConnections(items) ==
  /\ loadState = "pending"
  /\ loadState' = "loaded"
  /\ connections' = filterEnabled(items)
  /\ selectedConnectionId' =
       IF Len(filterEnabled(items)) > 0 /\ ~truthyNumber(selectedConnectionId)
       THEN filterEnabled(items)[1].id
       ELSE selectedConnectionId
  /\ lastOp' = op("loadConnections", "", "loaded")
  /\ UNCHANGED <<query, loading, messages, eventSource, currentSessionId,
                 channels, unmounted>>

\* A catch of loadConnections that resets the registry.
loadConnectionsFailedResets ==
  /\ loadState = "pending"
  /\ loadState' = "failed"
  /\ connections' = <<>>
  /\ selectedConnectionId' = null
  /\ lastOp' = op("loadConnections", "", "error: load failed")
  /\ UNCHANGED <<query, loading, messages, eventSource, currentSessionId,
                 channels, unmounted>>

\* loadConnections when the request fails: the catch logs and notifies.
loadConnectionsFailed ==
  /\ loadState = "pending"
  /\ loadState' = "failed"
  /\ lastOp' = op("loadConnections", "", "error: load failed")
  /\ UNCHANGED <<query, loading, messages, connections, selectedConnectionId,
                 eventSource, currentSessionId, channels, unmounted>>

Next ==
  \/ \E q \in QueryInputs : QueryInput(q)
  \/ handleSend
  \/ \E c \in DOMAIN channels : \E d \in Payloads : MessageEvent(c, d)
  \/ \E c \in DOMAIN channels : \E d \in Payloads \cup {NoPayload} : FinalResultEvent(c, d)
  \/ \E c \in DOMAIN channels : ErrorEvent(c)
  \/ handleClear
  \/ \E id \in 0..3 : SelectChange(id)
  \/ onUnmounted
  \/ \E items \in BackendLists : loadConnections(items)
  \/ loadConnectionsFailed

Spec == Init /\ [][Next]_vars

\* The registry operation taken by itself: loadConnections is called again
\* once the previous call has settled, so that it also runs with a list and
\* a selection already in place.  (The view calls it from onMounted.)
callLoadConnections ==
  /\ ~unmounted
  /\ loadState # "pending"
  /\ loadState' = "pending"
  /\ lastOp' = op("loadConnections", "", "called")
  /\ UNCHANGED <<query, loading, messages, connections, selectedConnectionId,
                 eventSource, currentSessionId, channels, unmounted>>

NextRegistry ==
  \/ \E items \in BackendLists : loadConnections(items)
  \/ loadConnectionsFailed
  \/ callLoadConnections
  \/ \E id \in 0..3 : SelectChange(id)
  \/ \E q \in QueryInputs : QueryInput(q)
  \/ onUnmounted

SpecRegistry == Init /\ [][NextRegistry]_vars

\* The whole view with loadConnections called again at any time, a stream
\* in progress included.
NextReload ==
  \/ Next
  \/ callLoadConnections

SpecReload == Init /\ [][NextReload]_vars

\* ----------------------------------------------------------------- claims
\* The selected id is the id of a connection of the registry.
selectedInRegistry ==
  \E i \in DOMAIN connections : connections[i].id = selectedConnectionId

\* The step is a call of handleSend.
sendStep == lastOp'.op = "handleSend"

\* C1: in every reachable state at most one streaming channel is open,
\* whatever sequence of start, chunk, error, clear and teardown led there.
C1_AtMostOneOpenChannel ==
  Cardinality(openChannels) <= 1

\* C1 witness: a second session streams after the first one's channel was
\* closed.
C1_Witness ==
  /\ Len(channels) = 2
  /\ channels[1].readyState = "closed"
  /\ channels[2].readyState = "open"
  /\ channels[2].aiContent # <<>>

\* C2 (as claimed): a start with a query that is non-empty after trimming,
\* a selected id that is the id of a registry connection, and no session in
\* progress appends the user turn with the trimmed query and then a pending
\* assistant turn with empty text, before any chunk of the new session.
C2_StartAppendsTwoTurns ==
  [][ (sendStep /\ truthyString(trim(query)) /\ selectedInRegistry /\ ~loading)
        => /\ Len(messages') = Len(messages) + 2
           /\ SubSeq(messages', 1, Len(messages)) = messages
           /\ LET user == messages'[Len(messages) + 1]
                  assistant == messages'[Len(messages) + 2]
              IN /\ user.type = "user"
                 /\ user.content = trim(query)
                 /\ assistant.type = "assistant"
                 /\ assistant.content = <<>>
                 /\ assistant.loading = TRUE
           /\ Len(channels') = Len(channels) + 1
           /\ channels'[Len(channels')].aiContent = <<>> ]_vars

\* C3 (as claimed): a start while the first session streams closes the first
\* session's channel and opens the second session's channel.
C3_SecondStartClosesThenOpens ==
  [][ (sendStep /\ loading /\ eventSource \in openChannels
         /\ truthyString(trim(query)) /\ truthyNumber(selectedConnectionId))
        => /\ channels'[eventSource].readyState = "closed"
           /\ Len(channels') = Len(channels) + 1
           /\ channels'[Len(channels')].readyState = "open" ]_vars

\* C3 (amended): a start while the first session streams leaves the first
\* session's channel open and opens no second channel; a channel is opened
\* only in a state where no channel is open.
C3_SecondStartRejected ==
  [][ /\ (sendStep /\ loading /\ eventSource \in openChannels)
           => (channels' = channels /\ eventSource' = eventSource)
      /\ (Len(channels') > Len(channels))
           => (openChannels = {} /\ openChannels' = {Len(channels')}) ]_vars

\* C3 witness: a start was rejected while the first channel is open.
C3_Witness ==
  /\ lastOp = op("handleSend", "", "return: loading")
  /\ eventSource \in openChannels
  /\ Len(channels) = 1

\* C4: with a session in progress (loading true), a start with a non-empty
\* query and a selected connection changes neither the transcript, the open
\* channel, the session id, the query input nor the loading flag.
C4_StartWhileLoadingIsNoOp ==
  [][ (sendStep /\ loading /\ truthyString(trim(query))
         /\ truthyNumber(selectedConnectionId))
        => UNCHANGED <<messages, channels, eventSource, currentSessionId,
                       query, loading>> ]_vars

\* C4 witness: handleSend returned on the loading flag with a query typed
\* and one pending assistant turn in the transcript.
C4_Witness ==
  /\ lastOp = op("handleSend", "", "return: loading")
  /\ loading
  /\ truthyString(trim(query))
  /\ Len(messages) = 2
  /\ messages[2].loading

\* The step is a call of es.onmessage; chunk is the parsed payload it got.
chunkStep == lastOp'.op = "onmessage"

chunk == JSONparse(lastOp'.data)

\* The step is a call of handleClear (from the button or from the Select).
clearOps == {"handleClear", "select"}

\* C5: a chunk whose payload has is_final true, with or without content,
\* closes the channel, clears the handle, resets loading and leaves the
\* session's assistant turn not pending.
C5_FinalChunkCompletes ==
  [][ (chunkStep /\ truthyFlag(chunk.is_final))
        => /\ eventSource \in openChannels
           /\ channels'[eventSource].readyState = "closed"
           /\ openChannels' = {}
           /\ eventSource' = null
           /\ loading' = FALSE
           /\ Len(messages') = Len(messages)
           /\ lastIsAssistant(messages')
           /\ messages'[Len(messages')].loading = FALSE ]_vars

\* C5 witness: a purely final chunk, arriving first, completed the session.
C5_Witness ==
  /\ lastOp = op("onmessage", "{is_final:true}", "final")
  /\ openChannels = {}
  /\ lastIsAssistant(messages)
  /\ messages[Len(messages)].content = <<>>
  /\ ~messages[Len(messages)].loading

\* C6 (as claimed): after an event of the final_result kind, whatever its
\* payload, the channel is closed and the assistant turn is not pending.
C6_FinalKindTerminates ==
  lastOp.op = "final_result"
    => /\ openChannels = {}
       /\ lastIsAssistant(messages)
       /\ ~messages[Len(messages)].loading

\* C7: the assistant turn starts empty and every chunk appends exactly its
\* content (nothing when it has none) to the text of the last turn, all
\* other turns untouched; after a non-final content chunk the turn is
\* pending.
C7_TextIsConcatenation ==
  [][ /\ (sendStep /\ Len(messages') > Len(messages))
           => messages'[Len(messages')].content = <<>>
      /\ chunkStep
           => LET n == Len(messages)
              IN /\ lastIsAssistant(messages)
                 /\ Len(messages') = n
                 /\ \A i \in 1..(n - 1) : messages'[i] = messages[i]
                 /\ messages'[n].content = messages[n].content \o chunk.content
                 /\ messages'[n].content = channels'[eventSource].aiContent
                 /\ messages'[n].error = messages[n].error
                 /\ (truthyString(chunk.content) /\ ~truthyFlag(chunk.is_final))
                      => messages'[n].loading = TRUE ]_vars

\* C7 witness: two content chunks arrived, y then x.
C7_Witness ==
  /\ lastOp = op("onmessage", "{content:'x'}", "chunk")
  /\ lastIsAssistant(messages)
  /\ messages[Len(messages)].content = <<"y", "x">>
  /\ messages[Len(messages)].loading

\* C8: a payload that fails to parse changes neither the accumulated text,
\* the transcript, the handle nor the loading flag, and the channel stays
\* open for later chunks.
C8_MalformedChunkDropped ==
  [][ (chunkStep /\ ~chunk.ok)
        => /\ UNCHANGED <<messages, channels, eventSource, loading>>
           /\ eventSource \in openChannels'
           /\ loading' = TRUE ]_vars

\* C8 witness: a malformed payload arrived after some text was streamed and
\* the session is still streaming.
C8_Witness ==
  /\ lastOp = op("onmessage", "oops", "caught")
  /\ eventSource \in openChannels
  /\ loading
  /\ messages[Len(messages)].content = <<"x">>
  /\ messages[Len(messages)].loading

\* C9: a transport error closes the channel, clears the handle, resets
\* loading and leaves the assistant turn not pending, with an error message
\* and the text accumulated so far; only handleSend opens a channel.
C9_TransportErrorFails ==
  [][ /\ (lastOp'.op = "onerror")
           => LET n == Len(messages)
              IN /\ eventSource \in openChannels
                 /\ channels'[eventSource].readyState = "closed"
                 /\ openChannels' = {}
                 /\ eventSource' = null
                 /\ loading' = FALSE
                 /\ lastIsAssistant(messages)
                 /\ Len(messages') = n
                 /\ messages'[n].loading = FALSE
                 /\ messages'[n].error # ""
                 /\ messages'[n].content = messages[n].content
                 /\ messages'[n].content = channels[eventSource].aiContent
      /\ (openChannels' \ openChannels # {}) => sendStep ]_vars

\* C9 witness: the error came before any chunk.
C9_Witness ==
  /\ lastOp.op = "onerror"
  /\ openChannels = {}
  /\ ~loading
  /\ messages[Len(messages)].content = <<>>
  /\ messages[Len(messages)].error = ConnectionFailed
  /\ ~messages[Len(messages)].loading

\* C10: handleClear leaves an empty transcript, no open channel, no handle
\* and loading false; a handleSend right after it is never refused for a
\* session in progress, and with a non-empty query and a selected
\* connection it starts a session.
C10_ClearResets ==
  [][ /\ (lastOp'.op \in clearOps)
           => /\ messages' = <<>>
              /\ openChannels' = {}
              /\ eventSource' = null
              /\ loading' = FALSE
      /\ (lastOp.op \in clearOps /\ sendStep)
           => /\ lastOp'.res # "return: loading"
              /\ (truthyString(trim(query)) /\ truthyNumber(selectedConnectionId))
                   => /\ lastOp'.res = "started"
                      /\ Len(messages') = 2
                      /\ openChannels' = {Len(channels')} ]_vars

\* C10 witness: handleClear ran in the middle of a stream.
C10_Witness ==
  /\ lastOp.op = "handleClear"
  /\ messages = <<>>
  /\ ~loading
  /\ Len(channels) = 1
  /\ channels[1].readyState = "closed"
  /\ channels[1].aiContent = <<"x">>

\* C11: teardown leaves no channel open, and once the view is torn down no
\* step (chunk or error callback included) changes the transcript.
C11_TeardownClosesChannel ==
  [][ /\ unmounted' => openChannels' = {}
      /\ unmounted => messages' = messages ]_vars

\* C11 witness: the view was torn down in the middle of a stream.
C11_Witness ==
  /\ unmounted
  /\ lastOp.op = "onUnmounted"
  /\ Len(channels) = 1
  /\ channels[1].readyState = "closed"
  /\ channels[1].aiContent = <<"x">>
  /\ messages[2].loading

\* C12: a turn that is not pending is never changed again: it does not
\* become pending, and its text and error message stay, under every chunk,
\* error and later start; only handleClear removes it (with the whole
\* transcript).
C12_TurnFinalOnce ==
  [][ \/ lastOp'.op \in clearOps /\ messages' = <<>>
      \/ /\ Len(messages') >= Len(messages)
         /\ \A i \in DOMAIN messages :
              (messages[i].type = "assistant" /\ ~messages[i].loading)
                => messages'[i] = messages[i] ]_vars

\* C12 witness: a later session streams text while the turn of a completed
\* session is still in the transcript.
C12_Witness ==
  /\ Len(messages) = 4
  /\ ~messages[2].loading
  /\ messages[2].content = <<"x">>
  /\ messages[4].loading
  /\ messages[4].content = <<"y">>

\* The query holds nothing but white space.
blankQuery == \A i \in DOMAIN query : query[i] = " "

\* C13: a start with a query that is empty after trimming, or with no
\* connection selected, changes no state: no turn, no channel opened or
\* closed, same session id, query input and loading flag.
C13_InvalidStartRejected ==
  [][ (sendStep /\ (blankQuery \/ selectedConnectionId = null))
        => /\ UNCHANGED <<messages, channels, eventSource, currentSessionId,
                          query, loading>>
           /\ lastOp'.res \in {"warning: empty query", "warning: no connection"} ]_vars

\* C13 witness: handleSend warned about a query of two spaces, a connection
\* being selected and no session in progress.
C13_Witness ==
  /\ lastOp = op("handleSend", "", "warning: empty query")
  /\ query = <<" ", " ">>
  /\ truthyNumber(selectedConnectionId)
  /\ ~loading

enabledAt(items) == { i \in DOMAIN items : items[i].status = 1 }

\* C15: after a successful load the connection list holds exactly the
\* enabled items of the fetched list, in the order of that list, and with
\* no prior selection the first of them is selected.
C15_EnabledSubsequence ==
  [][ \A items \in BackendLists :
        loadConnections(items)
          => /\ Len(connections') = Cardinality(enabledAt(items))
             /\ \A k \in DOMAIN connections' :
                  \E i \in enabledAt(items) :
                     /\ connections'[k] = items[i]
                     /\ Cardinality({ j \in enabledAt(items) : j < i }) = k - 1
             /\ (selectedConnectionId = null /\ enabledAt(items) # {})
                  => \E i \in enabledAt(items) :
                        /\ selectedConnectionId' = items[i].id
                        /\ \A j \in enabledAt(items) : i <= j ]_vars

\* C15 witness: of three fetched connections, the second disabled, two are
\* listed and the first of them is selected.
C15_Witness ==
  /\ lastOp = op("loadConnections", "", "loaded")
  /\ connections = << [id |-> 1, status |-> 1], [id |-> 3, status |-> 1] >>
  /\ selectedConnectionId = 1

\* C17: a failed fetch is reported and leaves the connection list, the
\* selection and all the rest of the view's state as they were; the view
\* is not torn down by it.
C17_LoadFailureKeepsState ==
  [][ (lastOp'.op = "loadConnections" /\ loadState' = "failed")
        => /\ lastOp'.res = "error: load failed"
           /\ UNCHANGED <<connections, selectedConnectionId, query, loading,
                          messages, eventSource, currentSessionId, channels,
                          unmounted>> ]_vars

\* C17 witness: a fetch failed with a list and a selection in place.
C17_Witness ==
  /\ lastOp = op("loadConnections", "", "error: load failed")
  /\ loadState = "failed"
  /\ Len(connections) = 2
  /\ selectedConnectionId = 3

\* The session is in progress: loading is set and the handle is an open
\* channel.
streaming == loading /\ eventSource \in openChannels

\* C16: a session in progress stays in progress (same open channel, loading
\* set) across every step other than a final chunk, a transport error, a
\* clear or the teardown: a malformed or non-final chunk, an event that
\* reaches no callback, a rejected start or an unrelated step do not end
\* it, and there is no timeout step.
C16_StalledStreamStays ==
  [][ (streaming /\ ~(streaming' /\ eventSource' = eventSource))
        => \/ chunkStep /\ truthyFlag(chunk.is_final)
           \/ lastOp'.op = "onerror"
           \/ lastOp'.op \in clearOps
           \/ lastOp'.op = "onUnmounted" ]_vars

\* C16 witness: the session is still in progress after a non-final chunk
\* without content.
C16_Witness ==
  /\ lastOp = op("onmessage", "{is_final:false}", "chunk")
  /\ streaming
  /\ messages[Len(messages)].loading

\* The step is a call of es.onmessage or es.onerror.
callbackStep == lastOp'.op \in {"onmessage", "onerror"}

\* C18: a callback changes no turn but the assistant turn that the start of
\* its own session appended (the turn whose id was generated right before
\* the session id), and neither adds nor removes a turn.  A callback runs
\* on a channel that is open, so the turn has to be the one of every open
\* channel.
C18_CallbackWritesOwnTurn ==
  [][ callbackStep
        => /\ openChannels # {}
           /\ Len(messages') = Len(messages)
           /\ \A i \in DOMAIN messages :
                messages'[i] # messages[i]
                  => /\ messages[i].type = "assistant"
                     /\ messages'[i].type = "assistant"
                     /\ messages'[i].id = messages[i].id
                     /\ \A c \in openChannels :
                          messages[i].id = channels[c].session_id - 1 ]_vars

\* C18 witness: after a first session had streamed and the transcript was
\* cleared, the second session's callback wrote into its own turn.
C18_Witness ==
  /\ lastOp.op = "onmessage"
  /\ Len(channels) = 2
  /\ channels[1].aiContent = <<"x">>
  /\ Len(messages) = 2
  /\ messages[2].id = channels[2].session_id - 1
  /\ messages[2].content = <<"y">>

C20_TranscriptShape ==
  /\ Len(messages) % 2 = 0
  /\ \A i \in DOMAIN messages :
       /\ messages[i].type = (IF i % 2 = 1 THEN "user" ELSE "assistant")
       /\ messages[i].loading => i = Len(messages)
  /\ ~unmounted
       => (loading <=> (messages # <<>> /\ messages[Len(messages)].loading))

\* C20 witness: two exchanges, the first one failed, the second pending.
C20_Witness ==
  /\ Len(messages) = 4
  /\ messages[2].error = ConnectionFailed
  /\ ~messages[2].loading
  /\ messages[4].loading
  /\ loading

\* C21: every open channel was opened with the connection id that is
\* selected now, and right after a change of the selection in the Select no
\* channel is open and the transcript is empty; so every chunk arrives
\* under the selection its session was started with.
C21_ChannelMatchesSelection ==
  /\ \A c \in openChannels : channels[c].connection_id = selectedConnectionId
  /\ lastOp.op = "select" => (openChannels = {} /\ messages = <<>> /\ ~loading)

\* C21 witness: the selection was changed in the middle of a stream, whose
\* channel was opened for the connection selected before.
C21_Witness ==
  /\ lastOp.op = "select"
  /\ Len(channels) = 1
  /\ channels[1].readyState = "closed"
  /\ channels[1].aiContent = <<"x">>
  /\ channels[1].connection_id # selectedConnectionId
  /\ messages = <<>>

====
